---- MODULE Spec2Model ----
(***************************************************************************)
(* A model of ko.validatedObservable (src/knockout-validated.js): one cell *)
(* made of the wrapped ko.observable _value, the snapshot _lastValue and   *)
(* the array _validationChain, driven by calls of its public functions     *)
(* read, write, addValidator, removeValidator and hasChanged.              *)
(*                                                                         *)
(* Knockout itself is the library the file requires (line 4).  The file    *)
(* uses ko.computed, so it needs Knockout 2.0 or later, whose observable   *)
(* ignores the write of a primitive value equal to the one it holds        *)
(* (equalityComparer) and whose valueHasMutated() always notifies.  All    *)
(* values of the model are primitives (numbers and undefined).             *)
(***************************************************************************)
EXTENDS Integers, Sequences, FiniteSets, TLC

(* ----------------------------- values ---------------------------------- *)

\* The JavaScript value undefined: what ko.observable() holds when it is
\* created without an argument, and what an unassigned var holds.
undefined == 0 - 999

\* The numbers a caller passes: those of the usage comment (123, 50, 500)
\* and one below 10.
Numbers == {5, 50, 123, 500}

Values == Numbers \cup {undefined}

\* The values a cell is constructed with.
InitValues == {5, 123}

(* --------------------------- validators -------------------------------- *)

\* Functions without side effects handed to addValidator, named by identity.
PureFunctions == {"gt100", "ge0", "le10"}

\* Functions that call addValidator/removeValidator of their own cell while
\* the chain runs.
ReentrantFunctions == {"removeSelf"}

Functions == PureFunctions \cup ReentrantFunctions

\* Arguments that are not functions.
NonFunctions == {"null"}

\* JavaScript's typeof.
TypeOf(x) ==
    IF x \in Functions THEN "function" ELSE "object"

\* The boolean a validator returns for newValue.  A comparison of undefined
\* with a number is false.
Returns(f, newValue) ==
    CASE f = "gt100"      -> newValue # undefined /\ newValue > 100
      [] f = "ge0"        -> newValue # undefined /\ newValue >= 0
      [] f = "le10"       -> newValue # undefined /\ newValue <= 10
      [] f = "removeSelf" -> TRUE

(* ------------------------- array primitives ---------------------------- *)

\* Array.prototype.indexOf: the 0-based index of the first element identical
\* to x, or -1.
IndexOf(chain, x) ==
    LET found == {i \in 1..Len(chain) : chain[i] = x}
    IN  IF found = {} THEN 0 - 1
        ELSE (CHOOSE i \in found : \A j \in found : i <= j) - 1

\* Array.prototype.splice(index, 1): drops the element at the 0-based index;
\* an index past the end drops nothing.
Splice1(chain, index) ==
    IF index >= Len(chain) THEN chain
    ELSE [i \in 1..(Len(chain) - 1) |->
            IF i <= index THEN chain[i] ELSE chain[i + 1]]

(* --------------------- the chain, as add/remove change it -------------- *)

\* Mutant: pushes without looking for the function in the chain.
addToChainNoLookup(chain, validationFunct) ==
    Append(chain, validationFunct)

\* Mutant: the function is put at the head of the chain.
addToChainUnshift(chain, validationFunct) ==
    IF IndexOf(chain, validationFunct) = 0 - 1
    THEN <<validationFunct>> \o chain
    ELSE chain

\* Lines 75-78 of addValidator.
addToChain(chain, validationFunct) ==
    IF IndexOf(chain, validationFunct) = 0 - 1
    THEN Append(chain, validationFunct)
    ELSE chain

\* Mutant: splices one position too far.
removeFromChainOffByOne(chain, validationFunct) ==
    LET _index == IndexOf(chain, validationFunct)
    IN  IF _index # 0 - 1 THEN Splice1(chain, _index + 1) ELSE chain

\* Lines 98-101 of removeValidator.
removeFromChain(chain, validationFunct) ==
    LET _index == IndexOf(chain, validationFunct)
    IN  IF _index # 0 - 1 THEN Splice1(chain, _index) ELSE chain

\* Mutant: no typeof test.
isInvalidArgumentNever(validationFunct) == FALSE

\* The typeof test of addValidator and removeValidator.
isInvalidArgument(validationFunct) ==
    TypeOf(validationFunct) # "function"

(* ------------------------- running the chain --------------------------- *)

\* Mutant: a validator that has been called is taken out of the chain.
ChainAfterCallConsumes(f, chain) == removeFromChain(chain, f)

\* The chain after the call of validator f: what f does to the chain of its
\* own cell through addValidator/removeValidator.
ChainAfterCall(f, chain) ==
    IF f = "removeSelf" THEN removeFromChain(chain, f) ELSE chain

RECURSIVE chainLoop(_, _, _, _, _)
\* The while loop of runValidationChain, from the state (_isValid, _index).
\* It returns the result, the chain the validators left and the validators
\* it called, in call order.
chainLoop(chain, newValue, _isValid, _index, called) ==
    IF _isValid /\ _index < Len(chain)
    THEN LET f == chain[_index + 1]
         IN  chainLoop(ChainAfterCall(f, chain), newValue,
                       Returns(f, newValue), _index + 1, Append(called, f))
    ELSE [isValid |-> _isValid, chain |-> chain, called |-> called]

RECURSIVE chainLoopExhaustive(_, _, _, _, _)
\* Mutant: the loop does not stop at the first rejection.
chainLoopExhaustive(chain, newValue, _isValid, _index, called) ==
    IF _index < Len(chain)
    THEN LET f == chain[_index + 1]
         IN  chainLoopExhaustive(ChainAfterCall(f, chain), newValue,
                       _isValid /\ Returns(f, newValue), _index + 1,
                       Append(called, f))
    ELSE [isValid |-> _isValid, chain |-> chain, called |-> called]

\* Mutant: _isValid starts false.
runValidationChainStartsFalse(chain, newValue) ==
    chainLoop(chain, newValue, FALSE, 0, <<>>)

\* Mutant: an accepting chain is reported as rejecting and vice versa.
runValidationChainNegated(chain, newValue) ==
    LET r == chainLoop(chain, newValue, TRUE, 0, <<>>)
    IN  [r EXCEPT !.isValid = ~r.isValid]

\* Mutant: every validator is called.
runValidationChainExhaustive(chain, newValue) ==
    chainLoopExhaustive(chain, newValue, TRUE, 0, <<>>)

runValidationChain(chain, newValue) ==
    chainLoop(chain, newValue, TRUE, 0, <<>>)

(* ------------------------ the wrapped observable ----------------------- *)

\* Mutant: the observable notifies the value it held before the write.
observableWriteNotifiesOld(held, newValue) ==
    IF held # newValue
    THEN [value |-> newValue, notified |-> <<held>>]
    ELSE [value |-> held, notified |-> <<>>]

\* _value(newValue): the observable takes newValue and notifies it, unless
\* newValue is the primitive value it already holds.
observableWrite(held, newValue) ==
    IF held # newValue
    THEN [value |-> newValue, notified |-> <<newValue>>]
    ELSE [value |-> held, notified |-> <<>>]

\* Mutant: the rejection is not signalled.
valueHasMutatedSilent(held) == <<>>

\* _value.valueHasMutated(): notifies the value the observable holds.
valueHasMutated(held) == <<held>>

\* Mutant: the snapshot is not taken.
snapshotKept(held, last) == last

\* Line 44: _lastValue = _value().
snapshot(held, last) == held

(* ------------------------------- state --------------------------------- *)

VARIABLES
    initValue,          \* the argument of ko.validatedObservable
    value,              \* what _value holds
    lastValue,          \* _lastValue
    validationChain,    \* _validationChain
    notified,           \* the values notified to the observers by the last call
    called,             \* the validators invoked by the last call, in order
    lastOp,             \* the last call and the state it started from
    prevOp,             \* the call before the last one
    committed,          \* some write has been accepted
    lastWrite           \* whether write was called, and the value _value
                        \* held when the most recent write was called

vars == <<initValue, value, lastValue, validationChain, notified, called,
          lastOp, prevOp, committed, lastWrite>>

\* The record of a call: its name, its arguments (val for write, fn for
\* addValidator/removeValidator), whether it threw, whether the chain
\* accepted, and the state before the call.
OpRecord(op, val, fn, thrown, accepted) ==
    [op |-> op, val |-> val, fn |-> fn, thrown |-> thrown,
     accepted |-> accepted, chainBefore |-> validationChain,
     valueBefore |-> value, lastValueBefore |-> lastValue]

\* What is kept of the call before the last one: its name and, of an
\* addValidator that returned, the function and the chain it started from.
Brief(r) ==
    IF r.op = "addValidator" /\ ~r.thrown
    THEN [op |-> r.op, fn |-> r.fn, chainBefore |-> r.chainBefore]
    ELSE [op |-> r.op, fn |-> "none", chainBefore |-> <<>>]

\* read(): returns _value().
read == value

\* Mutant: true once any write has been accepted.
hasChangedCumulative == committed

\* hasChanged(): _value() !== _lastValue.
hasChanged == value # lastValue

\* Mutant: the observable is created with initValue, the snapshot is not.
InitSeeded ==
    /\ initValue \in InitValues
    /\ value = initValue
    /\ lastValue = undefined
    /\ validationChain = <<>>
    /\ notified = <<>>
    /\ called = <<>>
    /\ lastOp = [op |-> "new", val |-> undefined, fn |-> "none",
                 thrown |-> FALSE, accepted |-> FALSE, chainBefore |-> <<>>,
                 valueBefore |-> initValue, lastValueBefore |-> undefined]
    /\ prevOp = [op |-> "new", fn |-> "none", chainBefore |-> <<>>]
    /\ committed = FALSE
    /\ lastWrite = [done |-> FALSE, valueBefore |-> undefined]

\* ko.validatedObservable(initValue): _value = ko.observable() is created
\* without an argument, _lastValue is unassigned, the chain is empty.
Init ==
    /\ initValue \in InitValues
    /\ value = undefined
    /\ lastValue = undefined
    /\ validationChain = <<>>
    /\ notified = <<>>
    /\ called = <<>>
    /\ lastOp = [op |-> "new", val |-> undefined, fn |-> "none",
                 thrown |-> FALSE, accepted |-> FALSE, chainBefore |-> <<>>,
                 valueBefore |-> undefined, lastValueBefore |-> undefined]
    /\ prevOp = [op |-> "new", fn |-> "none", chainBefore |-> <<>>]
    /\ committed = FALSE
    /\ lastWrite = [done |-> FALSE, valueBefore |-> undefined]

\* write(newValue) with the validators of the chain.
WriteBody(newValue) ==
    LET r == runValidationChain(validationChain, newValue)
        w == observableWrite(value, newValue)
    IN  /\ lastValue' = snapshot(value, lastValue)
        /\ validationChain' = r.chain
        /\ called' = r.called
        /\ IF r.isValid
           THEN /\ value' = w.value
                /\ notified' = w.notified
                /\ committed' = TRUE
           ELSE /\ value' = value
                /\ notified' = valueHasMutated(value)
                /\ committed' = committed
        /\ lastOp' = OpRecord("write", newValue, "none", FALSE, r.isValid)
        /\ prevOp' = Brief(lastOp)
        /\ lastWrite' = [done |-> TRUE, valueBefore |-> value]
        /\ UNCHANGED initValue

Write == \E newValue \in Values : WriteBody(newValue)

\* Mutant: addValidator signals the observers as a rejected write does.
AddValidatorBodyNotifying(validationFunct) ==
    /\ IF isInvalidArgument(validationFunct)
       THEN /\ UNCHANGED validationChain
            /\ lastOp' = OpRecord("addValidator", undefined, validationFunct,
                                  TRUE, FALSE)
       ELSE /\ validationChain' = addToChain(validationChain, validationFunct)
            /\ lastOp' = OpRecord("addValidator", undefined, validationFunct,
                                  FALSE, FALSE)
    /\ prevOp' = Brief(lastOp)
    /\ notified' = valueHasMutated(value)
    /\ called' = <<>>
    /\ UNCHANGED <<initValue, value, lastValue, committed, lastWrite>>

\* addValidator(validationFunct).
AddValidatorBody(validationFunct) ==
    /\ IF isInvalidArgument(validationFunct)
       THEN /\ UNCHANGED validationChain
            /\ lastOp' = OpRecord("addValidator", undefined, validationFunct,
                                  TRUE, FALSE)
       ELSE /\ validationChain' = addToChain(validationChain, validationFunct)
            /\ lastOp' = OpRecord("addValidator", undefined, validationFunct,
                                  FALSE, FALSE)
    /\ prevOp' = Brief(lastOp)
    /\ notified' = <<>>
    /\ called' = <<>>
    /\ UNCHANGED <<initValue, value, lastValue, committed, lastWrite>>

\* removeValidator(validationFunct).
RemoveValidatorBody(validationFunct) ==
    /\ IF isInvalidArgument(validationFunct)
       THEN /\ UNCHANGED validationChain
            /\ lastOp' = OpRecord("removeValidator", undefined,
                                  validationFunct, TRUE, FALSE)
       ELSE /\ validationChain' =
                    removeFromChain(validationChain, validationFunct)
            /\ lastOp' = OpRecord("removeValidator", undefined,
                                  validationFunct, FALSE, FALSE)
    /\ prevOp' = Brief(lastOp)
    /\ notified' = <<>>
    /\ called' = <<>>
    /\ UNCHANGED <<initValue, value, lastValue, committed, lastWrite>>

\* The callers of Spec pass functions without side effects, or non-functions.
AddValidator ==
    \E validationFunct \in PureFunctions \cup NonFunctions :
        AddValidatorBody(validationFunct)

RemoveValidator ==
    \E validationFunct \in PureFunctions \cup NonFunctions :
        RemoveValidatorBody(validationFunct)

\* The callers of SpecReentrant also pass a function that changes the chain.
ReentrantArguments == {"removeSelf", "gt100", "le10"} \cup NonFunctions

AddValidatorReentrant ==
    \E validationFunct \in ReentrantArguments :
        AddValidatorBody(validationFunct)

RemoveValidatorReentrant ==
    \E validationFunct \in ReentrantArguments :
        RemoveValidatorBody(validationFunct)

\* A call of read() or of hasChanged(): neither assigns anything.
Read ==
    /\ lastOp' = OpRecord("read", read, "none", FALSE, FALSE)
    /\ prevOp' = Brief(lastOp)
    /\ notified' = <<>>
    /\ called' = <<>>
    /\ UNCHANGED <<initValue, value, lastValue, validationChain, committed,
                   lastWrite>>

HasChanged ==
    /\ lastOp' = OpRecord("hasChanged", undefined, "none", FALSE, hasChanged)
    /\ prevOp' = Brief(lastOp)
    /\ notified' = <<>>
    /\ called' = <<>>
    /\ UNCHANGED <<initValue, value, lastValue, validationChain, committed,
                   lastWrite>>

Next ==
    \/ Write
    \/ AddValidator
    \/ RemoveValidator
    \/ Read
    \/ HasChanged

Spec == Init /\ [][Next]_vars

NextReentrant ==
    \/ Write
    \/ AddValidatorReentrant
    \/ RemoveValidatorReentrant
    \/ Read
    \/ HasChanged

SpecReentrant == Init /\ [][NextReentrant]_vars

(* ------------------------------ claims --------------------------------- *)

\* Every validator of chain returns true for newValue.
AllAccept(chain, newValue) ==
    \A i \in 1..Len(chain) : Returns(chain[i], newValue)

\* The validators up to and including the first one that rejects newValue.
PrefixToFirstReject(chain, newValue) ==
    LET rejecting == {i \in 1..Len(chain) : ~Returns(chain[i], newValue)}
    IN  IF rejecting = {} THEN chain
        ELSE SubSeq(chain, 1,
                    CHOOSE i \in rejecting : \A j \in rejecting : i <= j)

\* C1: after write(candidate), read() is candidate when every validator that
\* was in the chain at the call accepts candidate, and is the value it was
\* before the call when one of them rejects it; for a candidate other than
\* the value before the call, read() is candidate if and only if all accept.
C1_WriteCommitsIffAllAccept ==
    lastOp.op = "write" =>
        /\ AllAccept(lastOp.chainBefore, lastOp.val) => read = lastOp.val
        /\ ~AllAccept(lastOp.chainBefore, lastOp.val)
              => read = lastOp.valueBefore
        /\ lastOp.val # lastOp.valueBefore =>
              (read = lastOp.val
                  <=> AllAccept(lastOp.chainBefore, lastOp.val))

\* A write that two validators accept and that changes the value.
C1_Witness ==
    /\ lastOp.op = "write"
    /\ Len(lastOp.chainBefore) >= 2
    /\ AllAccept(lastOp.chainBefore, lastOp.val)
    /\ lastOp.val # lastOp.valueBefore
    /\ read = lastOp.val

\* C2: a cell constructed with the initial value v returns v from read()
\* until the first accepted write.
C2_ReadsInitialValueUntilAccepted ==
    ~committed => read = initValue

\* C3: a write whose candidate some validator rejects leaves read() at the
\* value committed before, raises no error and fires exactly one
\* notification, which carries that unchanged value.
C3_RejectedWriteNotifiesUnchanged ==
    (lastOp.op = "write" /\ ~AllAccept(lastOp.chainBefore, lastOp.val)) =>
        /\ read = lastOp.valueBefore
        /\ ~lastOp.thrown
        /\ notified = <<lastOp.valueBefore>>

\* A rejected write on a cell that holds a committed number.
C3_Witness ==
    /\ lastOp.op = "write"
    /\ ~AllAccept(lastOp.chainBefore, lastOp.val)
    /\ lastOp.valueBefore \in Numbers
    /\ lastOp.val # lastOp.valueBefore
    /\ notified = <<read>>

\* C4: during one write the validators invoked are exactly the prefix of the
\* chain, in registration order, up to and including the first one that
\* rejects the candidate, each invoked once.
C4_CalledIsPrefixToFirstReject ==
    lastOp.op = "write" =>
        called = PrefixToFirstReject(lastOp.chainBefore, lastOp.val)

\* A write that the first of three validators rejects: the others are not
\* invoked.
C4_Witness ==
    /\ lastOp.op = "write"
    /\ Len(lastOp.chainBefore) = 3
    /\ ~Returns(lastOp.chainBefore[1], lastOp.val)
    /\ called = <<lastOp.chainBefore[1]>>

\* C5 (as stated): addValidator(f); removeValidator(f) yields the chain that
\* was there before addValidator(f), for every prior chain and every f.
C5_AddThenRemoveRestoresChain ==
    (/\ lastOp.op = "removeValidator"
     /\ ~lastOp.thrown
     /\ prevOp.op = "addValidator"
     /\ prevOp.fn = lastOp.fn) =>
        validationChain = prevOp.chainBefore

\* C5 (amended): addValidator(f); removeValidator(f) yields the chain that
\* was there before addValidator(f) when f was not in that chain.
C5_AddThenRemoveRestoresChainIfAbsent ==
    (/\ lastOp.op = "removeValidator"
     /\ ~lastOp.thrown
     /\ prevOp.op = "addValidator"
     /\ prevOp.fn = lastOp.fn
     /\ IndexOf(prevOp.chainBefore, lastOp.fn) = 0 - 1) =>
        validationChain = prevOp.chainBefore

\* f is added to a chain of two other validators and removed again.
C5_Witness ==
    /\ lastOp.op = "removeValidator"
    /\ ~lastOp.thrown
    /\ prevOp.op = "addValidator"
    /\ prevOp.fn = lastOp.fn
    /\ IndexOf(prevOp.chainBefore, lastOp.fn) = 0 - 1
    /\ Len(prevOp.chainBefore) = 2
    /\ Len(lastOp.chainBefore) = 3
    /\ validationChain = prevOp.chainBefore

\* C6: after an accepted write(v) with v other than the value before the
\* call hasChanged() is true; after a rejected write it is false.
C6_HasChangedAfterWrite ==
    lastOp.op = "write" =>
        /\ (AllAccept(lastOp.chainBefore, lastOp.val)
              /\ lastOp.val # lastOp.valueBefore) => hasChanged
        /\ ~AllAccept(lastOp.chainBefore, lastOp.val) => ~hasChanged

\* A rejected write that follows a write: hasChanged() is false although the
\* snapshot of the earlier write differed from the value.
C6_Witness ==
    /\ lastOp.op = "write"
    /\ prevOp.op = "write"
    /\ ~AllAccept(lastOp.chainBefore, lastOp.val)
    /\ lastOp.lastValueBefore # lastOp.valueBefore
    /\ ~hasChanged

\* C7: each function appears at most once in the chain, and addValidator(f)
\* with f already present leaves the chain unchanged.
C7_ChainHasNoDuplicates ==
    /\ \A i, j \in 1..Len(validationChain) :
          validationChain[i] = validationChain[j] => i = j
    /\ (/\ lastOp.op = "addValidator"
        /\ ~lastOp.thrown
        /\ IndexOf(lastOp.chainBefore, lastOp.fn) # 0 - 1) =>
            validationChain = lastOp.chainBefore

\* addValidator(f) on a chain that holds f and another validator.
C7_Witness ==
    /\ lastOp.op = "addValidator"
    /\ ~lastOp.thrown
    /\ IndexOf(lastOp.chainBefore, lastOp.fn) # 0 - 1
    /\ Len(lastOp.chainBefore) >= 2
    /\ validationChain = lastOp.chainBefore

\* C8: with no validator in the chain every write(candidate) is accepted:
\* read() returns candidate afterwards.
C8_EmptyChainAccepts ==
    (lastOp.op = "write" /\ lastOp.chainBefore = <<>>) => read = lastOp.val

\* A write to a cell whose last validator has just been removed.
C8_Witness ==
    /\ lastOp.op = "write"
    /\ prevOp.op = "removeValidator"
    /\ lastOp.chainBefore = <<>>
    /\ lastOp.val # lastOp.valueBefore
    /\ read = lastOp.val

\* C9: addValidator(x) and removeValidator(x) throw exactly when x is not a
\* function, and then leave the chain, the value and the snapshot unchanged.
C9_NonFunctionThrows ==
    lastOp.op \in {"addValidator", "removeValidator"} =>
        /\ lastOp.thrown <=> lastOp.fn \in NonFunctions
        /\ lastOp.fn \in NonFunctions =>
              /\ validationChain = lastOp.chainBefore
              /\ value = lastOp.valueBefore
              /\ lastValue = lastOp.lastValueBefore

\* addValidator(null) on a fresh cell: it throws and the chain stays empty.
C9_Witness ==
    /\ lastOp.op = "addValidator"
    /\ prevOp.op = "new"
    /\ lastOp.fn = "null"
    /\ lastOp.thrown
    /\ validationChain = <<>>

\* C10 (as stated): every write, accepted or rejected, notifies the
\* observers once with the value the cell holds after it, also when the
\* accepted candidate equals the current value.
C10_EveryWriteNotifies ==
    lastOp.op = "write" => notified = <<read>>

\* C10 (amended): a rejected write notifies the unchanged value, and an
\* accepted write whose candidate differs from the current value notifies
\* the new value.
C10_WriteNotifiesUnlessSameValue ==
    lastOp.op = "write" =>
        /\ ~AllAccept(lastOp.chainBefore, lastOp.val)
              => notified = <<lastOp.valueBefore>>
        /\ (AllAccept(lastOp.chainBefore, lastOp.val)
              /\ lastOp.val # lastOp.valueBefore) => notified = <<lastOp.val>>

\* An accepted write that replaces a committed number by another one.
C10_Witness ==
    /\ lastOp.op = "write"
    /\ lastOp.chainBefore # <<>>
    /\ AllAccept(lastOp.chainBefore, lastOp.val)
    /\ lastOp.valueBefore \in Numbers
    /\ lastOp.val # lastOp.valueBefore
    /\ notified = <<lastOp.val>>

\* The chain without the entries identical to f, the others in their order.
Without(chain, f) ==
    LET Other(x) == x # f
    IN  SelectSeq(chain, Other)

\* C11: addValidator(f) with f absent appends f at the end of the chain and
\* leaves the entries before it as they were; removeValidator(f) with f
\* present removes that one entry and keeps the order of the others;
\* removeValidator(f) with f absent leaves the chain unchanged.
C11_AppendAtEndRemoveInPlace ==
    /\ (/\ lastOp.op = "addValidator"
        /\ ~lastOp.thrown
        /\ IndexOf(lastOp.chainBefore, lastOp.fn) = 0 - 1) =>
            validationChain = Append(lastOp.chainBefore, lastOp.fn)
    /\ (/\ lastOp.op = "removeValidator"
        /\ ~lastOp.thrown
        /\ IndexOf(lastOp.chainBefore, lastOp.fn) # 0 - 1) =>
            /\ validationChain = Without(lastOp.chainBefore, lastOp.fn)
            /\ Len(validationChain) = Len(lastOp.chainBefore) - 1
    /\ (/\ lastOp.op = "removeValidator"
        /\ ~lastOp.thrown
        /\ IndexOf(lastOp.chainBefore, lastOp.fn) = 0 - 1) =>
            validationChain = lastOp.chainBefore

\* The middle one of three validators is removed: the first and the last
\* stay, in that order.
C11_Witness ==
    /\ lastOp.op = "removeValidator"
    /\ Len(lastOp.chainBefore) = 3
    /\ lastOp.fn = lastOp.chainBefore[2]
    /\ validationChain = <<lastOp.chainBefore[1], lastOp.chainBefore[3]>>

\* C12: once write has been called, hasChanged() is true exactly when the
\* value differs from the value the cell held when the most recent write
\* was called.
C12_HasChangedReflectsLastWrite ==
    lastWrite.done => (hasChanged <=> value # lastWrite.valueBefore)

\* hasChanged() is called after a write that left the cell at the number
\* committed earlier: it is false although the value has changed before.
C12_Witness ==
    /\ lastOp.op = "hasChanged"
    /\ prevOp.op = "write"
    /\ lastWrite.done
    /\ committed
    /\ value \in Numbers
    /\ value = lastWrite.valueBefore
    /\ ~hasChanged

\* C13: addValidator, removeValidator, read and hasChanged leave the value
\* read() returns and the result of hasChanged() as they were and notify no
\* observer.
C13_OnlyWriteChangesValue ==
    lastOp.op \in {"addValidator", "removeValidator", "read", "hasChanged"} =>
        /\ read = lastOp.valueBefore
        /\ hasChanged <=> (lastOp.valueBefore # lastOp.lastValueBefore)
        /\ notified = <<>>

\* A validator is added to a cell whose last write changed its value.
C13_Witness ==
    /\ lastOp.op = "addValidator"
    /\ ~lastOp.thrown
    /\ validationChain # lastOp.chainBefore
    /\ hasChanged
    /\ read \in Numbers
    /\ notified = <<>>

\* C14: as long as write has not been called hasChanged() is false, for
\* every initial value and whatever validators were added and removed.
C14_NoChangeBeforeFirstWrite ==
    ~lastWrite.done => ~hasChanged

\* Validators have been added and one removed, and write was never called.
C14_Witness ==
    /\ ~lastWrite.done
    /\ lastOp.op = "removeValidator"
    /\ Len(lastOp.chainBefore) = 2
    /\ Len(validationChain) = 1
    /\ ~hasChanged

\* C15: also with validators that add or remove validators of their own
\* cell while the chain runs, a candidate is committed only if every
\* validator that is in the chain at the commit was invoked on it and
\* accepted it.
C15_CommitOnlyIfAllInvoked ==
    (lastOp.op = "write" /\ lastOp.accepted) =>
        \A i \in 1..Len(validationChain) :
            /\ \E j \in 1..Len(called) : called[j] = validationChain[i]
            /\ Returns(validationChain[i], lastOp.val)

\* C16: with validators that do not call addValidator or removeValidator, a
\* write, accepted or rejected, leaves the chain as it was.
C16_WriteKeepsChain ==
    lastOp.op = "write" => validationChain = lastOp.chainBefore

\* A write that the second of two validators rejects: both are still there,
\* in their order.
C16_Witness ==
    /\ lastOp.op = "write"
    /\ ~lastOp.accepted
    /\ Len(lastOp.chainBefore) = 2
    /\ called = lastOp.chainBefore
    /\ validationChain = lastOp.chainBefore

====
